---- MODULE Spec2Model ----
(***************************************************************************)
(* Order lifecycle and debt ledger of the POS-CRM backend.                 *)
(*                                                                         *)
(* The model follows server/routes/orders.js (order creation, edit, status *)
(* change, deletion) and server/routes/users.js (debt read, manual debt    *)
(* adjustment, schema).  Every request is a                                *)
(* process that walks through its handler one database statement (or one   *)
(* group of statements inside a transaction) at a time.  Statements issued *)
(* through query() are autocommitted; the order edit runs on one pooled    *)
(* client between BEGIN and COMMIT / ROLLBACK, so its writes are kept in a *)
(* private write set that becomes visible at COMMIT only.                  *)
(***************************************************************************)
EXTENDS Integers, Sequences, FiniteSets, TLC

\* ---------------------------------------------------------------- bounds
MaxLines == 2       \* longest item list a request carries
MaxQty == 2         \* largest quantity a line asks for
MaxRequests == 2    \* requests served in one behaviour
\* The same bounds for behaviours in which requests overlap.
ConcMaxLines == 1
ConcMaxQty == 1
ConcMaxRequests == 3
\* The same bounds for longer behaviours of small requests, one at a time.
LongMaxLines == 1
LongMaxQty == 1
LongMaxRequests == 3

\* ------------------------------------------------------------ fixed data
\* client_id of a guest order (SQL NULL; falsy, below every user id).
NULL == 0

\* Request handlers that may be in flight at the same time.
Procs == {1, 2}

\* users(id, role): user 1 is the admin, user 2 a client.
users == <<[role |-> "admin"], [role |-> "client"]>>
UserIds == DOMAIN users

\* products(id, price, stock_quantity, stock_status, category): the row id is
\* the index.  price and stock_quantity carry no CHECK constraint; price
\* defaults to 0.00.
products ==
  << [price |-> 2, stock_quantity |-> 2, stock_status |-> "enabled",  category |-> "smartphones"],
     [price |-> 1, stock_quantity |-> 1, stock_status |-> "enabled",  category |-> "accessories"],
     [price |-> 0, stock_quantity |-> 1, stock_status |-> "enabled",  category |-> "accessories"],
     [price |-> 1, stock_quantity |-> 1, stock_status |-> "disabled", category |-> "smartphones"] >>
ProductIds == DOMAIN products

\* Product ids a request may name: every catalog row and one id with no row.
RequestedProductIds == 1..(Len(products) + 1)
\* Prices an edit request may supply (isFloat({min: 0})).
SuppliedPrices == {0, 1}
\* Amounts a manual debt adjustment may carry (isFloat()): a reduction and an
\* increase.
SuppliedDebts == {1, -1}
\* User ids a manual debt adjustment may name: every user and one id with no row.
RequestedUserIds == 1..(Len(users) + 1)

Currencies == {"EUR", "MKD"}
\* The currency column of a row written without a currency (SQL NULL).
NullCurrency == "null"

\* The status field of a create or edit request: left out, or one of the two
\* values the validators accept.
RequestedStatuses == {"absent", "pending", "completed"}
\* The clientId field of a create request: left out (0), or the id of a user.
RequestedClientIds == {0} \cup UserIds

\* What the requests of a behaviour are drawn from.
Domain ==
  [actors |-> UserIds, clientIds |-> RequestedClientIds, guestNames |-> BOOLEAN,
   statuses |-> RequestedStatuses,
   productIds |-> RequestedProductIds, quantities |-> 1..MaxQty,
   prices |-> SuppliedPrices, debts |-> SuppliedDebts, currencies |-> Currencies,
   maxLines |-> MaxLines, maxRequests |-> MaxRequests,
   after |-> [q \in Procs |-> 0]]
\* Longer runs: requests of the admin about orders of the client, with a
\* supplied price that no catalog row carries.
LongDomain ==
  [actors |-> {1}, clientIds |-> {2}, guestNames |-> {FALSE},
   statuses |-> {"absent", "completed"},
   productIds |-> {1, 2}, quantities |-> 1..LongMaxQty,
   prices |-> {0, 3}, debts |-> {1}, currencies |-> {"MKD"},
   maxLines |-> LongMaxLines, maxRequests |-> LongMaxRequests,
   after |-> [q \in Procs |-> 0]]
\* Overlapping requests: all sent by the admin, orders for the client, one
\* product in stock and one that does not exist.  The second process takes up
\* requests once two have arrived, so the first request is served alone.
ConcDomain ==
  [actors |-> {1}, clientIds |-> {2}, guestNames |-> {FALSE},
   statuses |-> {"absent", "completed"},
   productIds |-> {2, Len(products) + 1}, quantities |-> 1..ConcMaxQty,
   prices |-> {1}, debts |-> {1}, currencies |-> {"MKD"},
   maxLines |-> ConcMaxLines, maxRequests |-> ConcMaxRequests,
   after |-> [q \in Procs |-> IF q = 1 THEN 0 ELSE 2]]


VARIABLES
  stock,                  \* products.stock_quantity, committed
  orders,                 \* orders table: id -> [client_id, status, total_amount]
  order_items,            \* order_items table, rows in insertion order
  user_debt_adjustments,  \* the debt ledger, rows in insertion order
  nextOrderId,            \* orders.id SERIAL
  nreq,                   \* requests started so far
  pc,                     \* per process: position in its handler
  req,                    \* per process: the request's parameters after destructuring
  items,                  \* per process: validatedItems (create) / items read so far (edit)
  totals,                 \* per process: totalAmount, eurPendingTotal, mkdPendingTotal
  idx,                    \* per process: index of the write loop of create
  currentItems,           \* per process: rows read by the edit before deletion
  tx,                     \* per process: write set and locks of the open transaction
  res,                    \* per process: the response sent
  pre                     \* per process: the committed tables when the request arrived

db == <<stock, orders, order_items, user_debt_adjustments, nextOrderId>>
locals == <<req, items, totals, idx, currentItems, tx>>
vars == <<stock, orders, order_items, user_debt_adjustments, nextOrderId, nreq,
          pc, req, items, totals, idx, currentItems, tx, res, pre>>

\* The committed tables a request can observe.
Tables == [stock |-> stock, orders |-> orders, order_items |-> order_items,
           user_debt_adjustments |-> user_debt_adjustments]

NoReq == [op |-> "none", actor |-> 0, clientId |-> NULL, guest |-> FALSE,
          status |-> "none", orderId |-> 0, hasItems |-> FALSE]
NoTotals == [totalAmount |-> 0, eur |-> 0, mkd |-> 0]
NoTx == [open |-> FALSE, delta |-> [i \in ProductIds |-> 0], locks |-> {},
         ledger |-> <<>>, deleted |-> 0, status |-> "none", lockOrder |-> FALSE,
         clientId |-> NULL, overlap |-> FALSE, writes |-> <<>>,
         connected |-> FALSE, released |-> 0]
NoRes == [code |-> 0]
NoPre == [stock |-> <<>>, orders |-> <<>>, order_items |-> <<>>,
          user_debt_adjustments |-> <<>>]

Init ==
  /\ stock = [i \in ProductIds |-> products[i].stock_quantity]
  /\ orders = <<>>
  /\ order_items = <<>>
  /\ user_debt_adjustments = <<>>
  /\ nextOrderId = 1
  /\ nreq = 0
  /\ pc = [p \in Procs |-> "idle"]
  /\ req = [p \in Procs |-> NoReq]
  /\ items = [p \in Procs |-> <<>>]
  /\ totals = [p \in Procs |-> NoTotals]
  /\ idx = [p \in Procs |-> 0]
  /\ currentItems = [p \in Procs |-> <<>>]
  /\ tx = [p \in Procs |-> NoTx]
  /\ res = [p \in Procs |-> NoRes]
  /\ pre = [p \in Procs |-> NoPre]

\* ------------------------------------------------------- shared helpers
\* Mutation: every category is booked as MKD.
CurrencyOfFlat(category) == "MKD"

\* Category decides the currency: smartphones are EUR, everything else MKD.
CurrencyOf(category) == IF category = "smartphones" THEN "EUR" ELSE "MKD"

LineTotal(price, quantity) == price * quantity

\* One row of user_debt_adjustments.
LedgerRow(userId, amount, currency, notes, orderId) ==
  [user_id |-> userId, adjustment_amount |-> amount,
   adjustment_type |-> "manual_reduction", currency |-> currency,
   notes |-> notes, order |-> orderId]

\* A product row is write-locked by the open transaction of another request.
LockedByOther(p, productId) ==
  \E q \in Procs \ {p} : tx[q].open /\ productId \in tx[q].locks

\* The rows of an order, or its header, are write-locked by another request.
OrderRowsLockedByOther(p, orderId) ==
  \E q \in Procs \ {p} :
    tx[q].open /\ req[q].orderId = orderId /\ tx[q].deleted > 0
OrderLockedByOther(p, orderId) ==
  \E q \in Procs \ {p} :
    tx[q].open /\ req[q].orderId = orderId /\ tx[q].lockOrder

\* An idle process takes up the next request of the behaviour.
MayStart(p, dom) == nreq < dom.maxRequests /\ nreq >= dom.after[p]

\* The response is sent and the handler returns: its locals are gone, and an
\* open transaction has been committed or rolled back by then.
RespondWith(p, response, client) ==
  /\ res' = [res EXCEPT ![p] = response]
  /\ pc' = [pc EXCEPT ![p] = "done"]
  /\ items' = [items EXCEPT ![p] = <<>>]
  /\ totals' = [totals EXCEPT ![p] = NoTotals]
  /\ idx' = [idx EXCEPT ![p] = 0]
  /\ currentItems' = [currentItems EXCEPT ![p] = <<>>]
  /\ tx' = [tx EXCEPT ![p] = client]

\* The response of a handler that took no client from the pool.
Respond(p, response) == RespondWith(p, response, NoTx)

\* --------------------------------------------------- POST /api/orders
\* Mutation: every authenticated actor passes for an admin.
isAdminAnyone(actor) == TRUE

\* req.user.role === 'admin'
isAdmin(actor) == users[actor].role = "admin"

\* Destructuring, role checks and the set-up of the validation loop.
CreateStart(p, dom) ==
  /\ pc[p] = "idle"
  /\ MayStart(p, dom)
  /\ \E actor \in dom.actors, requestedClientId \in dom.clientIds,
        guestName \in dom.guestNames, status \in dom.statuses :
       LET effStatus == IF status = "absent" THEN "pending" ELSE status
           clientId == IF guestName THEN NULL
                       ELSE IF requestedClientId # 0 THEN requestedClientId
                       ELSE actor
       IN /\ nreq' = nreq + 1
          /\ pre' = [pre EXCEPT ![p] = Tables]
          /\ req' = [req EXCEPT ![p] =
                       [op |-> "create", actor |-> actor, clientId |-> clientId,
                        guest |-> guestName, status |-> effStatus, orderId |-> 0,
                        hasItems |-> TRUE]]
          /\ IF ~isAdmin(actor) /\ (requestedClientId # 0 \/ guestName)
             THEN Respond(p, [code |-> 403])
             ELSE /\ pc' = [pc EXCEPT ![p] = "create_validate"]
                  /\ UNCHANGED <<res, items, totals, idx, currentItems, tx>>
  /\ UNCHANGED db

\* Mutation: the stock comparison is left out of the validation loop.
LineVerdictNoStock(line, stockNow) ==
  IF line.productId \notin ProductIds THEN "not_found"
  ELSE IF products[line.productId].stock_status = "disabled" THEN "not_available"
  ELSE "ok"

\* Why the validation loop rejects a line, or "ok".
LineVerdict(line, stockNow) ==
  IF line.productId \notin ProductIds THEN "not_found"
  ELSE IF products[line.productId].stock_status = "disabled" THEN "not_available"
  ELSE IF stockNow[line.productId] < line.quantity THEN "insufficient_stock"
  ELSE "ok"

\* One pass of the validation loop: the next line of the request is read, its
\* product row is selected and checked, and the totals are accumulated.
CreateValidate(p, dom) ==
  /\ pc[p] = "create_validate"
  /\ Len(items[p]) < dom.maxLines
  /\ \E productId \in dom.productIds, quantity \in dom.quantities :
       LET line == [productId |-> productId, quantity |-> quantity]
           verdict == LineVerdict(line, stock)
       IN IF verdict # "ok"
          THEN /\ Respond(p, [code |-> 400, reason |-> verdict, line |-> line,
                              position |-> Len(items[p]) + 1])
          ELSE LET product == products[productId]
                   lineTotal == LineTotal(product.price, quantity)
                   eur == CurrencyOf(product.category) = "EUR"
               IN /\ items' = [items EXCEPT ![p] =
                       Append(@, [productId |-> productId, quantity |-> quantity,
                                  price |-> product.price,
                                  category |-> product.category])]
                  /\ totals' = [totals EXCEPT ![p] =
                       [totalAmount |-> @.totalAmount + lineTotal,
                        eur |-> IF eur THEN @.eur + lineTotal ELSE @.eur,
                        mkd |-> IF eur THEN @.mkd ELSE @.mkd + lineTotal]]
                  /\ UNCHANGED <<pc, res, idx, currentItems, tx>>
  /\ UNCHANGED <<db, nreq, req, pre>>

\* The item list is exhausted: INSERT INTO orders ... RETURNING id.
CreateInsertOrder(p) ==
  /\ pc[p] = "create_validate"
  /\ Len(items[p]) >= 1
  /\ orders' = (nextOrderId :> [client_id |-> req[p].clientId,
                                status |-> req[p].status,
                                total_amount |-> totals[p].totalAmount]) @@ orders
  /\ nextOrderId' = nextOrderId + 1
  /\ req' = [req EXCEPT ![p].orderId = nextOrderId]
  /\ idx' = [idx EXCEPT ![p] = 1]
  /\ pc' = [pc EXCEPT ![p] = "create_item"]
  /\ UNCHANGED <<stock, order_items, user_debt_adjustments, nreq, items, totals,
                 currentItems, tx, res, pre>>

\* INSERT INTO order_items for validatedItems[idx].
CreateInsertItem(p) ==
  /\ pc[p] = "create_item"
  /\ LET item == items[p][idx[p]]
     IN order_items' = Append(order_items,
          [order_id |-> req[p].orderId, product_id |-> item.productId,
           quantity |-> item.quantity, price |-> item.price])
  /\ pc' = [pc EXCEPT ![p] = "create_stock"]
  /\ UNCHANGED <<stock, orders, user_debt_adjustments, nextOrderId, nreq, locals,
                 res, pre>>

\* Mutation: the status is not looked at when the debt increase is recorded.
RecordsDebtAnyStatus(r) == ~r.guest /\ r.clientId # NULL

\* Whether the debt increase is recorded at all (pending order of a client).
RecordsDebt(r) == ~r.guest /\ r.clientId # NULL /\ r.status = "pending"

\* Mutation: one unit leaves the stock whatever the quantity ordered.
StockLessOne(stockQuantity, quantity) == stockQuantity - 1

\* stock_quantity - $1
StockLess(stockQuantity, quantity) == stockQuantity - quantity

\* UPDATE products SET stock_quantity = stock_quantity - $1 for
\* validatedItems[idx]; the loop then moves on.
CreateUpdateStock(p) ==
  /\ pc[p] = "create_stock"
  /\ LET item == items[p][idx[p]]
     IN /\ ~LockedByOther(p, item.productId)
        /\ stock' = [stock EXCEPT ![item.productId] = StockLess(@, item.quantity)]
  /\ idx' = [idx EXCEPT ![p] = @ + 1]
  /\ pc' = [pc EXCEPT ![p] = IF idx[p] < Len(items[p]) THEN "create_item"
                             ELSE "create_debt_eur"]
  /\ UNCHANGED <<orders, order_items, user_debt_adjustments, nextOrderId, nreq,
                 req, items, totals, currentItems, tx, res, pre>>

Created(p) == [code |-> 201, orderId |-> req[p].orderId,
               totalAmount |-> totals[p].totalAmount]

\* The EUR half of the debt increase.
CreateDebtEUR(p) ==
  /\ pc[p] = "create_debt_eur"
  /\ user_debt_adjustments' =
       IF RecordsDebt(req[p]) /\ totals[p].eur > 0
       THEN Append(user_debt_adjustments,
                   LedgerRow(req[p].clientId, -totals[p].eur, "EUR",
                             "pending order", req[p].orderId))
       ELSE user_debt_adjustments
  /\ pc' = [pc EXCEPT ![p] = "create_debt_mkd"]
  /\ UNCHANGED <<stock, orders, order_items, nextOrderId, nreq, locals, res, pre>>

\* The MKD half of the debt increase, then the 201 response.
CreateDebtMKD(p) ==
  /\ pc[p] = "create_debt_mkd"
  /\ user_debt_adjustments' =
       IF RecordsDebt(req[p]) /\ totals[p].mkd > 0
       THEN Append(user_debt_adjustments,
                   LedgerRow(req[p].clientId, -totals[p].mkd, "MKD",
                             "pending order", req[p].orderId))
       ELSE user_debt_adjustments
  /\ Respond(p, Created(p))
  /\ UNCHANGED <<stock, orders, order_items, nextOrderId, nreq, req, pre>>

\* The positions of the handler at which the next thing is a query().
CreateQueryPoints ==
  {"create_validate", "create_item", "create_stock", "create_debt_eur",
   "create_debt_mkd"}

\* A query() rejects: the catch block answers 500.  Every statement before it
\* was autocommitted and stays.
CreateDbError(p) ==
  /\ pc[p] \in CreateQueryPoints
  /\ Respond(p, [code |-> 500])
  /\ UNCHANGED <<db, nreq, req, pre>>

\* ------------------------------------------------ PUT /api/orders/:id
\* The rows of one order in an order_items table.
ItemsOf(rows, orderId) == SelectSeq(rows, LAMBDA r : r.order_id = orderId)

\* An order_items table without the first n rows of one order.
RECURSIVE RemoveFirst(_, _, _)
RemoveFirst(rows, orderId, n) ==
  IF rows = <<>> \/ n = 0 THEN rows
  ELSE IF Head(rows).order_id = orderId
       THEN RemoveFirst(Tail(rows), orderId, n - 1)
       ELSE <<Head(rows)>> \o RemoveFirst(Tail(rows), orderId, n)

\* Mutation: one unit is restored per row, whatever its quantity.
RECURSIVE RestoreStockByOne(_, _)
RestoreStockByOne(delta, rows) ==
  IF rows = <<>> THEN delta
  ELSE RestoreStockByOne([delta EXCEPT ![Head(rows).product_id] = @ + 1], Tail(rows))

\* Stock deltas after UPDATE products SET stock_quantity = stock_quantity + $1
\* for every row read.
RECURSIVE RestoreStock(_, _)
RestoreStock(delta, rows) ==
  IF rows = <<>> THEN delta
  ELSE RestoreStock([delta EXCEPT ![Head(rows).product_id] = @ + Head(rows).quantity],
                    Tail(rows))

\* Sum of quantity * price over the rows whose category maps to a currency.
RECURSIVE ValueIn(_, _)
ValueIn(rows, currency) ==
  IF rows = <<>> THEN 0
  ELSE (IF CurrencyOf(Head(rows).category) = currency
        THEN LineTotal(Head(rows).price, Head(rows).quantity) ELSE 0)
       + ValueIn(Tail(rows), currency)

\* SELECT ... FROM order_items oi JOIN products p: the rows with their category.
WithCategory(rows) ==
  [i \in DOMAIN rows |->
     [product_id |-> rows[i].product_id, quantity |-> rows[i].quantity,
      price |-> rows[i].price, category |-> products[rows[i].product_id].category]]

\* Mutation: the rows are written whether or not the order has a client.
RemovedRowsAnyOrder(clientId, rows, orderId) ==
  (IF ValueIn(rows, "EUR") > 0
   THEN <<LedgerRow(clientId, ValueIn(rows, "EUR"), "EUR", "items removed", orderId)>>
   ELSE <<>>)
  \o
  (IF ValueIn(rows, "MKD") > 0
   THEN <<LedgerRow(clientId, ValueIn(rows, "MKD"), "MKD", "items removed", orderId)>>
   ELSE <<>>)

\* The ledger rows of one half of the edit: one per currency with a total
\* above zero, and none when the order has no client.
RemovedRows(clientId, rows, orderId) ==
  (IF ValueIn(rows, "EUR") > 0 /\ clientId # NULL
   THEN <<LedgerRow(clientId, ValueIn(rows, "EUR"), "EUR", "items removed", orderId)>>
   ELSE <<>>)
  \o
  (IF ValueIn(rows, "MKD") > 0 /\ clientId # NULL
   THEN <<LedgerRow(clientId, ValueIn(rows, "MKD"), "MKD", "items removed", orderId)>>
   ELSE <<>>)

\* Mutation: the rows for the added items carry the unsigned total.
AddedRowsUnsigned(clientId, rows, orderId) ==
  (IF ValueIn(rows, "EUR") > 0 /\ clientId # NULL
   THEN <<LedgerRow(clientId, ValueIn(rows, "EUR"), "EUR", "items added", orderId)>>
   ELSE <<>>)
  \o
  (IF ValueIn(rows, "MKD") > 0 /\ clientId # NULL
   THEN <<LedgerRow(clientId, ValueIn(rows, "MKD"), "MKD", "items added", orderId)>>
   ELSE <<>>)

AddedRows(clientId, rows, orderId) ==
  (IF ValueIn(rows, "EUR") > 0 /\ clientId # NULL
   THEN <<LedgerRow(clientId, -ValueIn(rows, "EUR"), "EUR", "items added", orderId)>>
   ELSE <<>>)
  \o
  (IF ValueIn(rows, "MKD") > 0 /\ clientId # NULL
   THEN <<LedgerRow(clientId, -ValueIn(rows, "MKD"), "MKD", "items added", orderId)>>
   ELSE <<>>)

\* SELECT SUM(oi.quantity * oi.price): null over no rows, stored as 0.
RECURSIVE SumLines(_)
SumLines(rows) ==
  IF rows = <<>> THEN 0
  ELSE LineTotal(Head(rows).price, Head(rows).quantity) + SumLines(Tail(rows))

\* Validation passed; SELECT id FROM orders WHERE id = $1.
EditStart(p, dom) ==
  /\ pc[p] = "idle"
  /\ MayStart(p, dom)
  /\ \E orderId \in 1..nextOrderId, status \in dom.statuses, hasItems \in BOOLEAN :
       /\ nreq' = nreq + 1
       /\ pre' = [pre EXCEPT ![p] = Tables]
       /\ req' = [req EXCEPT ![p] =
                    [op |-> "edit", actor |-> 1, clientId |-> NULL, guest |-> FALSE,
                     status |-> status, orderId |-> orderId, hasItems |-> hasItems]]
       /\ IF orderId \notin DOMAIN orders
          THEN Respond(p, [code |-> 404])
          ELSE /\ pc' = [pc EXCEPT ![p] = "edit_begin"]
               /\ UNCHANGED <<res, items, totals, idx, currentItems, tx>>
  /\ UNCHANGED db

\* The statements of the edit transaction that write, in the order they are
\* issued.  First the status update, when a status was given.
StatusWrite(status) ==
  IF status # "absent" THEN <<"status">> ELSE <<>>

\* Mutation: the items are deleted before their stock is restored.
DeleteThenRestoreWrites(cur, removedRows) ==
  <<"delete">> \o [i \in DOMAIN cur |-> "restore"]
    \o [i \in DOMAIN removedRows |-> "ledger_removed"]

\* One stock UPDATE per current item, the ledger INSERTs for the removed
\* items, then the DELETE of the order's items.
RestoreWrites(cur, removedRows) ==
  [i \in DOMAIN cur |-> "restore"]
    \o [i \in DOMAIN removedRows |-> "ledger_removed"] \o <<"delete">>

\* Per new item, after its stock check: the stock UPDATE and the INSERT.
LineWrites == <<"decrement", "insert">>

\* The ledger INSERTs for the added items and the UPDATE of total_amount.
FinalWrites(addedRows) ==
  [i \in DOMAIN addedRows |-> "ledger_added"] \o <<"total">>

\* Another request is inside its transaction on the same order.
EditInProgress(p, orderId) ==
  \E q \in Procs \ {p} : tx[q].open /\ req[q].orderId = orderId

\* pool.connect(), BEGIN, the status update if a status was given, and the
\* read of the order's current items.
EditBegin(p) ==
  /\ pc[p] = "edit_begin"
  /\ LET o == req[p].orderId
         setsStatus == req[p].status # "absent"
     IN /\ setsStatus => ~OrderLockedByOther(p, o)
        /\ tx' = [tx EXCEPT ![p] =
                    [NoTx EXCEPT !.open = TRUE, !.connected = TRUE,
                                 !.status = IF setsStatus THEN req[p].status ELSE "none",
                                 !.lockOrder = setsStatus /\ o \in DOMAIN orders,
                                 !.overlap = EditInProgress(p, o),
                                 !.writes = StatusWrite(req[p].status)]]
        /\ IF req[p].hasItems
           THEN /\ currentItems' = [currentItems EXCEPT ![p] =
                                      WithCategory(ItemsOf(order_items, o))]
                /\ pc' = [pc EXCEPT ![p] = "edit_restore"]
           ELSE /\ pc' = [pc EXCEPT ![p] = "edit_commit"]
                /\ UNCHANGED currentItems
  /\ UNCHANGED <<db, nreq, req, items, totals, idx, res, pre>>

\* Stock is restored for every current item, the ledger rows for the removed
\* items are written, and the order's items are deleted.
EditRestore(p) ==
  /\ pc[p] = "edit_restore"
  /\ LET o == req[p].orderId
         cur == currentItems[p]
         clientId == IF o \in DOMAIN orders THEN orders[o].client_id ELSE NULL
     IN /\ \A i \in DOMAIN cur : ~LockedByOther(p, cur[i].product_id)
        /\ ~OrderRowsLockedByOther(p, o)
        /\ tx' = [tx EXCEPT ![p].delta = RestoreStock(@, cur),
                            ![p].locks = @ \cup {cur[i].product_id : i \in DOMAIN cur},
                            ![p].clientId = clientId,
                            ![p].ledger = @ \o RemovedRows(clientId, cur, o),
                            ![p].writes = @ \o RestoreWrites(cur,
                                                 RemovedRows(clientId, cur, o)),
                            ![p].deleted = Len(ItemsOf(order_items, o))]
  /\ pc' = [pc EXCEPT ![p] = "edit_lines"]
  /\ UNCHANGED <<db, nreq, req, items, totals, idx, currentItems, res, pre>>

\* Mutation: the restored and decremented stock survives the failure.
RollbackKeepsStock(p, response) ==
  /\ Respond(p, response)
  /\ stock' = [i \in ProductIds |-> stock[i] + tx[p].delta[i]]
  /\ UNCHANGED <<orders, order_items, user_debt_adjustments, nextOrderId>>

\* Mutation: the client is never given back.
ReleaseSkipped(released) == released

\* finally { client.release() }: one more release of the client.
Release(released) == released + 1

\* The transaction is over and the finally block has run: the client obtained
\* by pool.connect() with its count of releases.
Closed(p) == [NoTx EXCEPT !.connected = TRUE, !.released = Release(tx[p].released)]

\* catch: ROLLBACK, release, and the outer catch answers 500.  Nothing the
\* transaction wrote becomes visible; when ROLLBACK itself rejects (the
\* connection is lost, and the server ends the transaction) its error
\* replaces the first one, the finally block runs all the same.
Rollback(p, response) ==
  /\ \E rollback \in {"done", "failed"} :
       RespondWith(p, [f \in DOMAIN response \cup {"rollback"} |->
                         IF f = "rollback" THEN rollback ELSE response[f]],
                   Closed(p))
  /\ UNCHANGED db

\* Mutation: the stock check reads the committed quantity, without what this
\* transaction restored and took.
StockSeenOutside(p, productId) == stock[productId]

\* SELECT stock_quantity FROM products WHERE id = $1 on the transaction's
\* client: the committed quantity with this transaction's own updates.
StockSeenBy(p, productId) == stock[productId] + tx[p].delta[productId]

\* One pass of the insert loop: the next line of the request is read, stock
\* is checked against what this transaction sees, decremented, and the item
\* row inserted.  A missing product or a shortfall throws: ROLLBACK, 500.
EditLine(p, dom) ==
  /\ pc[p] = "edit_lines"
  /\ Len(items[p]) < dom.maxLines
  /\ \E productId \in dom.productIds, quantity \in dom.quantities,
        price \in dom.prices :
       IF productId \notin ProductIds
       THEN Rollback(p, [code |-> 500, reason |-> "not_found",
                         position |-> Len(items[p]) + 1,
                         line |-> [productId |-> productId, quantity |-> quantity]])
       ELSE LET currentStock == StockSeenBy(p, productId)
            IN IF currentStock < quantity
               THEN Rollback(p, [code |-> 500, reason |-> "insufficient_stock",
                                 position |-> Len(items[p]) + 1,
                                 line |-> [productId |-> productId,
                                           quantity |-> quantity]])
               ELSE /\ ~LockedByOther(p, productId)
                    /\ tx' = [tx EXCEPT ![p].delta[productId] = @ - quantity,
                                        ![p].locks = @ \cup {productId},
                                        ![p].writes = @ \o LineWrites]
                    /\ items' = [items EXCEPT ![p] =
                         Append(@, [productId |-> productId, quantity |-> quantity,
                                    price |-> price,
                                    category |-> products[productId].category])]
                    /\ UNCHANGED <<db, pc, res, totals, idx, currentItems>>
  /\ UNCHANGED <<nreq, req, pre>>

\* Mutation: the rows are inserted at the catalog price of their product.
NewRowsAtCatalogPrice(orderId, lines) ==
  [i \in DOMAIN lines |->
     [order_id |-> orderId, product_id |-> lines[i].productId,
      quantity |-> lines[i].quantity, price |-> products[lines[i].productId].price]]

\* The order_items rows an edit inserts.
NewRows(orderId, lines) ==
  [i \in DOMAIN lines |->
     [order_id |-> orderId, product_id |-> lines[i].productId,
      quantity |-> lines[i].quantity, price |-> lines[i].price]]

\* The order_items table as the transaction sees it: the committed rows
\* without those it deleted, and the rows it inserted.
TxItems(p) ==
  RemoveFirst(order_items, req[p].orderId, tx[p].deleted)
    \o NewRows(req[p].orderId, items[p])

\* Mutation: the rows replace what earlier transactions wrote for the same
\* order.
ReplaceOrderRows(ledger, rows) ==
  SelectSeq(ledger, LAMBDA r : \A i \in DOMAIN rows : rows[i].order # r.order) \o rows

\* COMMIT makes the ledger rows the transaction inserted visible, after the
\* rows committed before it.
CommitLedger(ledger, rows) == ledger \o rows

\* The item list is exhausted (or none was given): the ledger rows for the
\* added items, the recomputed total, COMMIT and the 200 response.
EditCommit(p) ==
  /\ \/ pc[p] = "edit_lines" /\ Len(items[p]) >= 1
     \/ pc[p] = "edit_commit"
  /\ LET o == req[p].orderId
         t == tx[p]
         ledger == IF req[p].hasItems
                   THEN t.ledger \o AddedRows(t.clientId, items[p], o)
                   ELSE t.ledger
         total == SumLines(ItemsOf(TxItems(p), o))
     IN /\ req[p].hasItems => ~OrderLockedByOther(p, o)
        /\ stock' = [i \in ProductIds |-> stock[i] + t.delta[i]]
        /\ order_items' = TxItems(p)
        /\ user_debt_adjustments' = CommitLedger(user_debt_adjustments, ledger)
        /\ orders' =
             IF o \in DOMAIN orders
             THEN [orders EXCEPT
                     ![o].status = IF t.status # "none" THEN t.status ELSE @,
                     ![o].total_amount = IF req[p].hasItems THEN total ELSE @]
             ELSE orders
        /\ RespondWith(p, [code |-> 200,
                       status |-> IF req[p].status = "absent" THEN "unchanged"
                                  ELSE req[p].status,
                       itemsUpdated |-> req[p].hasItems,
                       overlapped |-> t.overlap,
                       writes |-> IF req[p].hasItems
                                  THEN t.writes \o FinalWrites(
                                         AddedRows(t.clientId, items[p], o))
                                  ELSE t.writes], Closed(p))
  /\ UNCHANGED <<nextOrderId, nreq, req, pre>>

\* An INSERT INTO user_debt_adjustments of the edit rejects.  The handler
\* catches and logs the error and goes on; on the server the statement's
\* failure has put the transaction into the aborted state.
EditLedgerInsertFails(p) ==
  /\ \/ /\ pc[p] = "edit_restore"
        /\ req[p].orderId \in DOMAIN orders
        /\ RemovedRows(orders[req[p].orderId].client_id, currentItems[p],
                       req[p].orderId) # <<>>
     \/ /\ pc[p] = "edit_lines" /\ Len(items[p]) >= 1
        /\ AddedRows(tx[p].clientId, items[p], req[p].orderId) # <<>>
  /\ pc' = [pc EXCEPT ![p] = "edit_aborted"]
  /\ UNCHANGED <<db, nreq, req, items, totals, idx, currentItems, tx, res, pre>>

\* The next statement on the client of an aborted transaction is refused
\* (current transaction is aborted, commands ignored until end of transaction
\* block): it throws where nothing catches it but the ROLLBACK handler.
EditAborted(p) ==
  /\ pc[p] = "edit_aborted"
  /\ Rollback(p, [code |-> 500, reason |-> "ledger_insert", position |-> 0])
  /\ UNCHANGED <<nreq, req, pre>>

\* A statement of the edit fails, BEGIN included: ROLLBACK, 500.
EditDbError(p) ==
  /\ pc[p] \in {"edit_begin", "edit_restore", "edit_lines", "edit_commit"}
  /\ Rollback(p, [code |-> 500, reason |-> "db_error", position |-> 0])
  /\ UNCHANGED <<nreq, req, pre>>

\* pool.connect() rejects (no client within connectionTimeoutMillis): there
\* is no client to release, and the outer catch answers 500.
EditConnectFails(p) ==
  /\ pc[p] = "edit_begin"
  /\ Respond(p, [code |-> 500, reason |-> "connect", position |-> 0])
  /\ UNCHANGED <<db, nreq, req, pre>>

\* ------------------------------------------ PUT /api/orders/:id/status
\* Mutation: the update of the status also clears the order's total.
StatusUpdateClearsTotal(rows, orderId, status) ==
  [rows EXCEPT ![orderId].status = status, ![orderId].total_amount = 0]

\* UPDATE orders SET status = $1 WHERE id = $2.
StatusUpdate(rows, orderId, status) == [rows EXCEPT ![orderId].status = status]

\* UPDATE orders ... RETURNING id, status: 404 when no row matched, 500 when
\* the statement rejects.
SetStatus(p, dom) ==
  /\ pc[p] = "idle"
  /\ MayStart(p, dom)
  /\ \E orderId \in 1..nextOrderId, status \in {"pending", "completed"},
        rejected \in BOOLEAN :
       /\ ~OrderLockedByOther(p, orderId)
       /\ nreq' = nreq + 1
       /\ pre' = [pre EXCEPT ![p] = Tables]
       /\ req' = [req EXCEPT ![p] =
                    [op |-> "status", actor |-> 1, clientId |-> NULL, guest |-> FALSE,
                     status |-> status, orderId |-> orderId, hasItems |-> FALSE]]
       /\ IF rejected
          THEN /\ orders' = orders
               /\ Respond(p, [code |-> 500])
          ELSE IF orderId \notin DOMAIN orders
          THEN /\ orders' = orders
               /\ Respond(p, [code |-> 404])
          ELSE /\ orders' = StatusUpdate(orders, orderId, status)
               /\ Respond(p, [code |-> 200, status |-> status])
  /\ UNCHANGED <<stock, order_items, user_debt_adjustments, nextOrderId>>

\* --------------------------------------------- DELETE /api/orders/:id
\* SELECT id FROM orders WHERE id = $1.
DeleteStart(p, dom) ==
  /\ pc[p] = "idle"
  /\ MayStart(p, dom)
  /\ \E orderId \in 1..nextOrderId :
       /\ nreq' = nreq + 1
       /\ pre' = [pre EXCEPT ![p] = Tables]
       /\ req' = [req EXCEPT ![p] =
                    [op |-> "delete", actor |-> 1, clientId |-> NULL, guest |-> FALSE,
                     status |-> "none", orderId |-> orderId, hasItems |-> FALSE]]
       /\ IF orderId \notin DOMAIN orders
          THEN Respond(p, [code |-> 404])
          ELSE /\ pc' = [pc EXCEPT ![p] = "delete_items"]
               /\ UNCHANGED <<res, items, totals, idx, currentItems, tx>>
  /\ UNCHANGED db

\* Mutation: only the first item of the order goes.
WithoutFirstItemOf(rows, orderId) == RemoveFirst(rows, orderId, 1)

\* The order_items rows left by DELETE ... WHERE order_id = $1.
WithoutItemsOf(rows, orderId) == SelectSeq(rows, LAMBDA r : r.order_id # orderId)

\* DELETE FROM order_items WHERE order_id = $1, autocommitted.
DeleteItems(p) ==
  /\ pc[p] = "delete_items"
  /\ ~OrderRowsLockedByOther(p, req[p].orderId)
  /\ order_items' = WithoutItemsOf(order_items, req[p].orderId)
  /\ pc' = [pc EXCEPT ![p] = "delete_order"]
  /\ UNCHANGED <<stock, orders, user_debt_adjustments, nextOrderId, nreq, locals,
                 res, pre>>

\* DELETE FROM orders WHERE id = $1, autocommitted, then the 200 response.
DeleteOrder(p) ==
  /\ pc[p] = "delete_order"
  /\ ~OrderLockedByOther(p, req[p].orderId)
  /\ orders' = [o \in DOMAIN orders \ {req[p].orderId} |-> orders[o]]
  /\ Respond(p, [code |-> 200, orderId |-> req[p].orderId])
  /\ UNCHANGED <<stock, order_items, user_debt_adjustments, nextOrderId, nreq, req,
                 pre>>

\* One of the two DELETE statements rejects: 500, what was deleted stays deleted.
DeleteDbError(p) ==
  /\ pc[p] \in {"delete_items", "delete_order"}
  /\ Respond(p, [code |-> 500])
  /\ UNCHANGED <<db, nreq, req, pre>>

\* -------------------------------------------- PUT /api/users/:id/debt
\* Mutation: the adjustment replaces the user's earlier rows of its currency
\* (a balance that is set, not a ledger that is appended to).
SetAdjustment(ledger, row) ==
  Append(SelectSeq(ledger, LAMBDA r : ~(r.user_id = row.user_id
                                        /\ r.currency = row.currency)), row)

\* INSERT INTO user_debt_adjustments (...) VALUES (...).
InsertAdjustment(ledger, row) == Append(ledger, row)

\* The user is looked up (404 when absent) and the adjustment is inserted with
\* the currency of the request, NULL when the request has none.  An INSERT
\* that rejects is logged and the request is answered with success all the same.
AdjustDebt(p, dom) ==
  /\ pc[p] = "idle"
  /\ MayStart(p, dom)
  /\ \E userId \in RequestedUserIds, debt \in dom.debts,
        currency \in dom.currencies \cup {NullCurrency}, inserted \in BOOLEAN :
       /\ nreq' = nreq + 1
       /\ pre' = [pre EXCEPT ![p] = Tables]
       /\ req' = [req EXCEPT ![p] =
                    [NoReq EXCEPT !.op = "debt", !.actor = 1, !.clientId = userId]]
       /\ IF userId \notin UserIds
          THEN /\ user_debt_adjustments' = user_debt_adjustments
               /\ Respond(p, [code |-> 404])
          ELSE /\ user_debt_adjustments' =
                    IF inserted
                    THEN InsertAdjustment(user_debt_adjustments,
                           LedgerRow(userId, debt, currency, "manual", 0))
                    ELSE user_debt_adjustments
               /\ Respond(p, [code |-> 200, debt |-> debt, currency |-> currency,
                              inserted |-> inserted])
  /\ UNCHANGED <<stock, orders, order_items, nextOrderId>>

\* ------------------------------------------ GET /api/users/:id/profile
\* Mutation: the negated sum is reported as it is.
clampNothing(n) == n

\* SELECT currency, COALESCE(SUM(adjustment_amount), 0) ... GROUP BY currency:
\* one row per currency that occurs among the user's ledger rows.
RECURSIVE SumAmounts(_, _, _)
SumAmounts(ledger, userId, currency) ==
  IF ledger = <<>> THEN 0
  ELSE (IF Head(ledger).user_id = userId /\ Head(ledger).currency = currency
        THEN Head(ledger).adjustment_amount ELSE 0)
       + SumAmounts(Tail(ledger), userId, currency)

SumsByCurrency(ledger, userId) ==
  {[currency |-> c, sum |-> SumAmounts(ledger, userId, c)] :
     c \in {ledger[i].currency : i \in {j \in DOMAIN ledger : ledger[j].user_id = userId}}}

clampNonNegative(n) == IF n < 0 THEN 0 ELSE n

\* eurSum and mkdSum start at 0 and take the sum of their currency's row.
DebtOf(ledger, userId) ==
  LET rows == SumsByCurrency(ledger, userId)
      eurSum == IF \E r \in rows : r.currency = "EUR"
                THEN (CHOOSE r \in rows : r.currency = "EUR").sum ELSE 0
      mkdSum == IF \E r \in rows : r.currency = "MKD"
                THEN (CHOOSE r \in rows : r.currency = "MKD").sum ELSE 0
      eurDebt == clampNonNegative(-eurSum)
      mkdDebt == clampNonNegative(-mkdSum)
  IN [eurDebt |-> eurDebt, mkdDebt |-> mkdDebt,
      totalDebt |-> clampNonNegative(eurDebt + mkdDebt)]

\* The debt part of the profile read for an existing user, its ledger query
\* answered by the database.
GetProfile(p) ==
  /\ pc[p] = "idle"
  /\ \E userId \in UserIds :
       /\ req' = [req EXCEPT ![p] = [NoReq EXCEPT !.op = "profile", !.clientId = userId]]
       /\ Respond(p, [code |-> 200, debt |-> DebtOf(user_debt_adjustments, userId)])
  /\ pre' = [pre EXCEPT ![p] = Tables]
  /\ UNCHANGED <<db, nreq>>

\* The handler has returned; the process can serve the next request.
Finish(p) ==
  /\ pc[p] = "done"
  /\ pc' = [pc EXCEPT ![p] = "idle"]
  /\ req' = [req EXCEPT ![p] = NoReq]
  /\ res' = [res EXCEPT ![p] = NoRes]
  /\ pre' = [pre EXCEPT ![p] = NoPre]
  /\ tx' = [tx EXCEPT ![p] = NoTx]
  /\ UNCHANGED <<db, nreq, items, totals, idx, currentItems>>

Step(p, dom) ==
  \/ CreateStart(p, dom)
  \/ CreateValidate(p, dom)
  \/ CreateInsertOrder(p)
  \/ CreateInsertItem(p)
  \/ CreateUpdateStock(p)
  \/ CreateDebtEUR(p)
  \/ CreateDebtMKD(p)
  \/ CreateDbError(p)
  \/ EditStart(p, dom)
  \/ EditBegin(p)
  \/ EditRestore(p)
  \/ EditLine(p, dom)
  \/ EditCommit(p)
  \/ EditLedgerInsertFails(p)
  \/ EditAborted(p)
  \/ EditDbError(p)
  \/ EditConnectFails(p)
  \/ SetStatus(p, dom)
  \/ DeleteStart(p, dom)
  \/ DeleteItems(p)
  \/ DeleteOrder(p)
  \/ DeleteDbError(p)
  \/ AdjustDebt(p, dom)
  \/ GetProfile(p)
  \/ Finish(p)

\* Requests are served one at a time.
Next == Step(1, Domain)
Spec == Init /\ [][Next]_vars

\* Requests overlap: the first request is served alone (ConcDomain.after), the
\* later ones by two processes that each advance at their own pace.
NextConc == \E p \in Procs : Step(p, ConcDomain)
SpecConc == Init /\ [][NextConc]_vars

\* Longer runs of small requests, served one at a time.
NextLong == Step(1, LongDomain)
SpecLong == Init /\ [][NextLong]_vars

\* ================================================================ claims
\* What the claims speak about, stated from the tables alone.
IsDone(p, op) == pc[p] = "done" /\ req[p].op = op

\* The ledger rows committed since the request of p arrived.
NewLedgerRows(p) ==
  SubSeq(user_debt_adjustments, Len(pre[p].user_debt_adjustments) + 1,
         Len(user_debt_adjustments))

RowCurrency(row) ==
  IF products[row.product_id].category = "smartphones" THEN "EUR" ELSE "MKD"

\* Sum of quantity * price over the order_items rows of one currency.
RECURSIVE LinesValue(_, _)
LinesValue(rows, currency) ==
  IF rows = <<>> THEN 0
  ELSE (IF RowCurrency(Head(rows)) = currency
        THEN Head(rows).quantity * Head(rows).price ELSE 0)
       + LinesValue(Tail(rows), currency)

\* Total quantity of one product over order_items rows.
RECURSIVE QuantityOf(_, _)
QuantityOf(rows, productId) ==
  IF rows = <<>> THEN 0
  ELSE (IF Head(rows).product_id = productId THEN Head(rows).quantity ELSE 0)
       + QuantityOf(Tail(rows), productId)

\* Sum of the amounts of ledger rows of one currency.
RECURSIVE AmountsIn(_, _)
AmountsIn(ledger, currency) ==
  IF ledger = <<>> THEN 0
  ELSE (IF Head(ledger).currency = currency THEN Head(ledger).adjustment_amount ELSE 0)
       + AmountsIn(Tail(ledger), currency)

\* The ledger rows among `ledger` with a currency and a note.
Matching(ledger, currency, notes) ==
  {i \in DOMAIN ledger : ledger[i].currency = currency /\ ledger[i].notes = notes}

BadLine(line, stockThen) ==
  \/ line.productId \notin ProductIds
  \/ /\ line.productId \in ProductIds
     /\ \/ products[line.productId].stock_status = "disabled"
        \/ stockThen[line.productId] < line.quantity

\* C1: order creation is all-or-nothing: a create request that does not end
\* in success (also one cut short by a failing database statement) leaves no
\* order header, item, stock change or ledger row behind.
C1_CreateAllOrNothing ==
  \A p \in Procs :
    (IsDone(p, "create") /\ res[p].code # 201) => Tables = pre[p]

\* C2: a create request with a missing, disabled or under-stocked product on
\* any line is rejected with 400 and writes nothing: no line that is bad is
\* ever accepted by the validation loop, and a 400 answer leaves every table
\* as it was when the request arrived.
C2_BadLineRejectsWholeOrder ==
  \A p \in Procs :
    /\ (req[p].op = "create" /\ pc[p] # "done") =>
         \A i \in DOMAIN items[p] : ~BadLine(items[p][i], pre[p].stock)
    /\ (IsDone(p, "create") /\ res[p].code = 400) =>
         /\ BadLine(res[p].line, pre[p].stock)
         /\ Tables = pre[p]

\* C2 witness: the second line of a create request was bad and the request
\* was answered 400.
C2_Witness ==
  \E p \in Procs :
    /\ IsDone(p, "create") /\ res[p].code = 400
    /\ res[p].position = 2 /\ res[p].reason = "insufficient_stock"

\* A successful creation of a pending order for a registered client.
PendingClientOrderCreated(p) ==
  /\ IsDone(p, "create") /\ res[p].code = 201
  /\ ~req[p].guest /\ req[p].clientId # NULL /\ req[p].status = "pending"

CreatedLines(p) == ItemsOf(order_items, res[p].orderId)

\* C3 as stated: a successful pending creation for a client appends exactly
\* one ledger row per currency present in the order, of amount minus that
\* currency's line total.
C3_OneRowPerCurrencyPresent ==
  \A p \in Procs : PendingClientOrderCreated(p) =>
    \A c \in Currencies :
      LET present == \E i \in DOMAIN CreatedLines(p) : RowCurrency(CreatedLines(p)[i]) = c
          rows == Matching(NewLedgerRows(p), c, "pending order")
      IN /\ Cardinality(rows) = IF present THEN 1 ELSE 0
         /\ \A i \in rows :
              /\ NewLedgerRows(p)[i].adjustment_amount = -LinesValue(CreatedLines(p), c)
              /\ NewLedgerRows(p)[i].user_id = req[p].clientId

\* C3 amended: a successful pending creation for a client appends exactly one
\* ledger row per currency whose line total is above zero (none for a currency
\* whose lines total zero), for that client, of amount minus that currency's
\* line total; nothing else is appended, and the negated sum of the new rows
\* is the order's total line value.
C3_OneRowPerCurrencyWithValue ==
  \A p \in Procs : PendingClientOrderCreated(p) =>
    /\ \A c \in Currencies :
         LET rows == Matching(NewLedgerRows(p), c, "pending order")
         IN /\ Cardinality(rows) = IF LinesValue(CreatedLines(p), c) > 0 THEN 1 ELSE 0
            /\ \A i \in rows :
                 /\ NewLedgerRows(p)[i].adjustment_amount = -LinesValue(CreatedLines(p), c)
                 /\ NewLedgerRows(p)[i].user_id = req[p].clientId
    /\ Len(NewLedgerRows(p)) =
         Cardinality(Matching(NewLedgerRows(p), "EUR", "pending order"))
         + Cardinality(Matching(NewLedgerRows(p), "MKD", "pending order"))
    /\ -(AmountsIn(NewLedgerRows(p), "EUR") + AmountsIn(NewLedgerRows(p), "MKD"))
         = SumLines(CreatedLines(p))
    /\ SumLines(CreatedLines(p)) = orders[res[p].orderId].total_amount

\* C3 witness: a pending client order with smartphone and accessory lines was
\* created and both an EUR and an MKD row were appended.
C3_Witness ==
  \E p \in Procs :
    /\ PendingClientOrderCreated(p)
    /\ Len(NewLedgerRows(p)) = 2
    /\ LinesValue(CreatedLines(p), "EUR") > 0
    /\ LinesValue(CreatedLines(p), "MKD") > 0

\* C4: creating a guest order, or an order with status completed, appends no
\* row to the debt ledger, at any point of the request.
C4_NoLedgerRowForGuestOrCompleted ==
  \A p \in Procs :
    (req[p].op = "create" /\ (req[p].guest \/ req[p].status = "completed")) =>
      user_debt_adjustments = pre[p].user_debt_adjustments

\* C4 witness: a guest order and a completed client order have been created.
C4_Witness ==
  \E p \in Procs :
    /\ IsDone(p, "create") /\ res[p].code = 201
    /\ ~req[p].guest /\ req[p].status = "completed"
    /\ \E o \in DOMAIN orders : orders[o].client_id = NULL /\ o # res[p].orderId

\* C5: an order edit that fails (missing product, shortfall after
\* restoration, failing statement) leaves the order, its items, every stock
\* quantity and the ledger exactly as they were before the request.
C5_FailedEditChangesNothing ==
  \A p \in Procs :
    (IsDone(p, "edit") /\ res[p].code # 200) => Tables = pre[p]

\* C5 witness: an edit of an order that had items failed on its second new
\* line, after stock had been restored and the first line written.
C5_Witness ==
  \E p \in Procs :
    /\ IsDone(p, "edit") /\ res[p].code = 500
    /\ res[p].position = 2 /\ res[p].reason = "not_found"
    /\ ItemsOf(order_items, req[p].orderId) # <<>>

\* A successful edit that replaced the items of an order.
ItemsReplaced(p) ==
  IsDone(p, "edit") /\ res[p].code = 200 /\ req[p].hasItems

ItemsBefore(p) == ItemsOf(pre[p].order_items, req[p].orderId)
ItemsAfter(p) == ItemsOf(order_items, req[p].orderId)

\* C6: a successful edit from item set A to item set B changes each
\* product's stock by (quantity of the product in A) - (its quantity in B).
C6_StockConservation ==
  \A p \in Procs : ItemsReplaced(p) =>
    \A i \in ProductIds :
      stock[i] - pre[p].stock[i]
        = QuantityOf(ItemsBefore(p), i) - QuantityOf(ItemsAfter(p), i)

\* C6 witness: A and B share a product whose stock changed, and another
\* product, in neither set, exists.
C6_Witness ==
  \E p \in Procs :
    /\ ItemsReplaced(p)
    /\ \E i \in ProductIds :
         /\ QuantityOf(ItemsBefore(p), i) > 0 /\ QuantityOf(ItemsAfter(p), i) > 0
         /\ stock[i] # pre[p].stock[i]
    /\ \E i \in ProductIds :
         QuantityOf(ItemsBefore(p), i) = 0 /\ QuantityOf(ItemsAfter(p), i) = 0

\* C7: a successful edit of a client's order from A to B appends, per
\* currency with a nonzero total, one "items removed" row of +value(A) and
\* one "items added" row of -value(B), and nothing else, so the client's
\* ledger sum in each currency changes by value(A) - value(B).
C7_EditLedgerRows ==
  \A p \in Procs :
    (ItemsReplaced(p) /\ orders[req[p].orderId].client_id # NULL) =>
      LET new == NewLedgerRows(p)
          A == ItemsBefore(p)
          B == ItemsAfter(p)
      IN /\ \A c \in Currencies :
              LET removed == Matching(new, c, "items removed")
                  added == Matching(new, c, "items added")
              IN /\ Cardinality(removed) = IF LinesValue(A, c) > 0 THEN 1 ELSE 0
                 /\ Cardinality(added) = IF LinesValue(B, c) > 0 THEN 1 ELSE 0
                 /\ \A i \in removed : new[i].adjustment_amount = LinesValue(A, c)
                 /\ \A i \in added : new[i].adjustment_amount = -LinesValue(B, c)
                 /\ AmountsIn(new, c) = LinesValue(A, c) - LinesValue(B, c)
         /\ \A i \in DOMAIN new :
              /\ new[i].user_id = orders[req[p].orderId].client_id
              /\ new[i].notes \in {"items removed", "items added"}

\* C7 witness: an edit of a client's order appended a removed row in one
\* currency and an added row in the other.
C7_Witness ==
  \E p \in Procs :
    /\ ItemsReplaced(p) /\ orders[req[p].orderId].client_id # NULL
    /\ Matching(NewLedgerRows(p), "EUR", "items removed") # {}
    /\ Matching(NewLedgerRows(p), "MKD", "items added") # {}
    /\ LinesValue(ItemsBefore(p), "EUR") # LinesValue(ItemsAfter(p), "EUR")

\* C8: after every successful order creation and every successful order
\* edit, the order's total_amount is the sum of quantity * price over the
\* order items stored for it.
C8_TotalMatchesItems ==
  \A p \in Procs :
    /\ (IsDone(p, "create") /\ res[p].code = 201) =>
         orders[res[p].orderId].total_amount = SumLines(CreatedLines(p))
    /\ (IsDone(p, "edit") /\ res[p].code = 200) =>
         orders[req[p].orderId].total_amount = SumLines(ItemsAfter(p))

\* C9: every product's stock_quantity is at least 0 in every reachable state.
C9_StockNeverNegative ==
  \A i \in ProductIds : stock[i] >= 0

\* C10: the debt read returns, per currency, max(0, -(sum of the user's
\* ledger amounts in that currency)), and totalDebt is their sum: 0/0 for a
\* user without rows, 0 for a currency whose rows sum to a positive value.
UserRows(userId) ==
  SelectSeq(user_debt_adjustments, LAMBDA r : r.user_id = userId)
DebtFromLedger(userId, currency) ==
  LET owed == 0 - AmountsIn(UserRows(userId), currency)
  IN IF owed > 0 THEN owed ELSE 0

C11_LedgerAppendOnly ==
  [][\A i \in DOMAIN user_debt_adjustments :
       /\ i \in DOMAIN user_debt_adjustments'
       /\ user_debt_adjustments'[i] = user_debt_adjustments[i]]_vars

\* C11 witness: an order whose creation wrote a ledger row has been deleted,
\* and the row is still there.
C11_Witness ==
  \E p \in Procs :
    /\ IsDone(p, "delete") /\ res[p].code = 200
    /\ \E i \in DOMAIN user_debt_adjustments :
         user_debt_adjustments[i].order = req[p].orderId

\* C12: a create request of a non-admin actor that names a clientId or
\* carries guest info is answered 403 at once and writes nothing, and an order
\* written by the request of a non-admin is owned by that actor.
C12_OnlyAdminAssignsOrders ==
  \A p \in Procs :
    (req[p].op = "create" /\ users[req[p].actor].role # "admin") =>
      /\ (req[p].guest \/ req[p].clientId # req[p].actor) =>
           /\ pc[p] = "done" /\ res[p].code = 403
           /\ Tables = pre[p]
      /\ (req[p].orderId \in DOMAIN orders) =>
           orders[req[p].orderId].client_id = req[p].actor

\* C12 witness: the client asked for an order on another user's account, was
\* answered 403, and the order written earlier is all there is.
C12_Witness ==
  \E p \in Procs :
    /\ IsDone(p, "create") /\ res[p].code = 403
    /\ users[req[p].actor].role = "client"
    /\ ~req[p].guest /\ req[p].clientId \notin {NULL, req[p].actor}
    /\ DOMAIN orders # {}

\* C13: the order a non-admin actor creates is stored with status pending,
\* whatever the request says: only an admin's request stores another status.
C13_NonAdminCreatesPending ==
  \A p \in Procs :
    (req[p].op = "create" /\ req[p].orderId \in DOMAIN orders
       /\ users[req[p].actor].role # "admin") =>
      orders[req[p].orderId].status = "pending"

\* A request that only changes a status: the status endpoint, or an edit
\* without items.
StatusChange(p) ==
  IsDone(p, "status") \/ (IsDone(p, "edit") /\ ~req[p].hasItems)

\* C14: a status change (the status endpoint, or an edit that carries no
\* items) leaves every stock quantity, every order item, the ledger, every
\* user's debt and every order's client and total as they were; no order but
\* the one addressed changes at all.
C14_StatusChangeFrame ==
  \A p \in Procs : StatusChange(p) =>
    /\ stock = pre[p].stock
    /\ order_items = pre[p].order_items
    /\ user_debt_adjustments = pre[p].user_debt_adjustments
    /\ \A u \in UserIds :
         DebtOf(user_debt_adjustments, u) = DebtOf(pre[p].user_debt_adjustments, u)
    /\ DOMAIN orders = DOMAIN pre[p].orders
    /\ \A o \in DOMAIN orders :
         /\ orders[o].client_id = pre[p].orders[o].client_id
         /\ orders[o].total_amount = pre[p].orders[o].total_amount
         /\ o # req[p].orderId => orders[o] = pre[p].orders[o]

\* C14 witness: the status endpoint moved a pending order of a client, with a
\* total and a ledger row of its own, to completed.
C14_Witness ==
  \E p \in Procs :
    /\ IsDone(p, "status") /\ res[p].code = 200
    /\ pre[p].orders[req[p].orderId].status = "pending"
    /\ orders[req[p].orderId].status = "completed"
    /\ orders[req[p].orderId].total_amount > 0
    /\ \E i \in DOMAIN user_debt_adjustments :
         user_debt_adjustments[i].order = req[p].orderId

\* C15: every row of the debt ledger has currency EUR or MKD.
C15_LedgerCurrencies ==
  \A i \in DOMAIN user_debt_adjustments :
    user_debt_adjustments[i].currency \in Currencies

\* C16: a request that is rejected for insufficient stock is answered with
\* status 400, in order creation and in item replacement alike.
C16_StockErrorIs400 ==
  \A p \in Procs :
    (pc[p] = "done" /\ "reason" \in DOMAIN res[p]
       /\ res[p].reason = "insufficient_stock") =>
      res[p].code = 400

\* C17: an edit request whose order does not exist when the request is
\* answered is not answered with success (404, or 500 when a statement
\* failed), and the step that answers it changes no order item, stock
\* quantity or ledger row - also when the order was deleted by another
\* request after the edit had looked it up.
C17_EditOfMissingOrder ==
  [][\A p \in Procs :
       (/\ req'[p].op = "edit"
        /\ pc[p] # "done" /\ pc'[p] = "done"
        /\ req'[p].orderId \notin DOMAIN orders) =>
         /\ res'[p].code \in {404, 500}
         /\ order_items' = order_items
         /\ stock' = stock
         /\ user_debt_adjustments' = user_debt_adjustments]_vars

\* A request on behalf of a guest: a creation with guest info, or an edit of
\* an order without a client.
GuestRequest(p) ==
  \/ req[p].op = "create" /\ req[p].guest
  \/ /\ req[p].op = "edit"
     /\ req[p].orderId \in DOMAIN orders
     /\ orders[req[p].orderId].client_id = NULL

\* C18: nothing is written to the ledger on behalf of a guest order: a
\* creation with guest info and an edit of an order whose client_id is null
\* leave the ledger as it was, no ledger row has a null user, and no ledger
\* row belongs to an order without a client.
C18_NoLedgerRowForGuestOrder ==
  /\ \A p \in Procs :
       GuestRequest(p) => user_debt_adjustments = pre[p].user_debt_adjustments
  /\ \A i \in DOMAIN user_debt_adjustments :
       LET row == user_debt_adjustments[i]
       IN /\ row.user_id # NULL
          /\ row.order \in DOMAIN orders => orders[row.order].client_id # NULL

\* C18 witness: the items of a guest order, worth something before and
\* after, have been replaced.
C18_Witness ==
  \E p \in Procs :
    /\ ItemsReplaced(p)
    /\ orders[req[p].orderId].client_id = NULL
    /\ SumLines(ItemsBefore(p)) > 0
    /\ SumLines(ItemsAfter(p)) > 0

\* Order creation stores each line at the catalog price of its product.
C19_CreationStoresCatalogPrice ==
  \A p \in Procs : (IsDone(p, "create") /\ res[p].code = 201) =>
    \A i \in DOMAIN CreatedLines(p) :
      CreatedLines(p)[i].price = products[CreatedLines(p)[i].product_id].price

\* The value booked for the removed items is computed from the prices stored
\* on them.
C19_RemovalUsesStoredPrice ==
  \A p \in Procs :
    (ItemsReplaced(p) /\ orders[req[p].orderId].client_id # NULL) =>
      \A c \in Currencies :
        LET removed == Matching(NewLedgerRows(p), c, "items removed")
        IN /\ LinesValue(ItemsBefore(p), c) > 0 => removed # {}
           /\ \A i \in removed :
                NewLedgerRows(p)[i].adjustment_amount = LinesValue(ItemsBefore(p), c)

\* The step that commits an item replacement stores the lines of the request,
\* each at the price the request gave for it.
C19_ReplacementStoresSuppliedPrice ==
  \A p \in Procs :
    (pc[p] = "edit_lines" /\ pc'[p] = "done" /\ res'[p].code = 200) =>
      LET rows == ItemsOf(order_items', req[p].orderId)
      IN /\ Len(rows) = Len(items[p])
         /\ \A i \in DOMAIN rows :
              /\ rows[i].product_id = items[p][i].productId
              /\ rows[i].quantity = items[p][i].quantity
              /\ rows[i].price = items[p][i].price

\* C19: the price of an order item is fixed when the line is written: the
\* catalog price at creation, the caller's price at replacement (whatever the
\* catalog says), and the stored price, unchanged, is what a later edit uses
\* for the value of the removed items.
C19_PriceSnapshot ==
  /\ [](C19_CreationStoresCatalogPrice /\ C19_RemovalUsesStoredPrice)
  /\ [][C19_ReplacementStoresSuppliedPrice]_vars

\* C19 witness: an edit replaced items that an earlier edit had stored at a
\* price above zero that is not their product's catalog price, and booked
\* their value.
C19_Witness ==
  \E p \in Procs :
    /\ ItemsReplaced(p) /\ orders[req[p].orderId].client_id # NULL
    /\ \E i \in DOMAIN ItemsBefore(p) :
         /\ ItemsBefore(p)[i].price > 0
         /\ ItemsBefore(p)[i].price # products[ItemsBefore(p)[i].product_id].price
    /\ \E i \in DOMAIN NewLedgerRows(p) : NewLedgerRows(p)[i].notes = "items removed"

\* C20: in an edit of a client's order, every ledger row for the removed
\* items has a negative amount and every ledger row for the added items has
\* a positive amount.
C20_EditLedgerSigns ==
  \A p \in Procs :
    (ItemsReplaced(p) /\ orders[req[p].orderId].client_id # NULL) =>
      \A i \in DOMAIN NewLedgerRows(p) :
        /\ NewLedgerRows(p)[i].notes = "items removed" =>
             NewLedgerRows(p)[i].adjustment_amount < 0
        /\ NewLedgerRows(p)[i].notes = "items added" =>
             NewLedgerRows(p)[i].adjustment_amount > 0

\* Total quantity of one product over the lines of a request.
RECURSIVE LinesQuantity(_, _)
LinesQuantity(lines, productId) ==
  IF lines = <<>> THEN 0
  ELSE (IF Head(lines).productId = productId THEN Head(lines).quantity ELSE 0)
       + LinesQuantity(Tail(lines), productId)

\* What a product can give to the new lines of an edit: its stock before the
\* call and the quantity of it on the order's current items.
Available(p, productId) ==
  pre[p].stock[productId] + QuantityOf(ItemsBefore(p), productId)

\* The lines an edit has accepted all name products that exist and ask, per
\* product and in total, for no more than is available; so do the items of
\* an edit that succeeded.
C21_AcceptedLinesFit ==
  \A p \in Procs :
    /\ (req[p].op = "edit" /\ pc[p] = "edit_lines") =>
         /\ \A i \in DOMAIN items[p] : items[p][i].productId \in ProductIds
         /\ \A i \in ProductIds : LinesQuantity(items[p], i) <= Available(p, i)
    /\ ItemsReplaced(p) =>
         /\ \A i \in DOMAIN ItemsAfter(p) : ItemsAfter(p)[i].product_id \in ProductIds
         /\ \A i \in ProductIds : QuantityOf(ItemsAfter(p), i) <= Available(p, i)

\* The step in which an edit rejects a line: the product of the line does
\* not exist, or the line asks for more than what is still available after
\* the lines accepted before it.
C21_RejectedLineDoesNotFit ==
  \A p \in Procs :
    (pc[p] = "edit_lines" /\ pc'[p] = "done"
       /\ res'[p].code # 200 /\ res'[p].reason # "db_error") =>
      LET line == res'[p].line
      IN /\ res'[p].reason = "not_found" <=> line.productId \notin ProductIds
         /\ res'[p].reason = "insufficient_stock" =>
              LinesQuantity(items[p], line.productId) + line.quantity
                > Available(p, line.productId)

\* C21: an edit checks stock after restoring what the order's current items
\* hold: it accepts a list of new lines exactly when every product exists
\* and, per product, the quantity asked for over all lines is at most the
\* stock before the call plus the quantity on the current items - also with
\* the same product on several lines (an edit cut short by a failing
\* statement aside).
C21_EditChecksRestoredStock ==
  /\ []C21_AcceptedLinesFit
  /\ [][C21_RejectedLineDoesNotFit]_vars

\* C21 witness: an edit succeeded with the same product on two lines that
\* together take all that was available, part of it restored from the order.
C21_Witness ==
  \E p \in Procs :
    /\ ItemsReplaced(p)
    /\ Len(ItemsAfter(p)) = 2
    /\ ItemsAfter(p)[1].product_id = ItemsAfter(p)[2].product_id
    /\ LET i == ItemsAfter(p)[1].product_id
       IN /\ QuantityOf(ItemsBefore(p), i) > 0
          /\ QuantityOf(ItemsAfter(p), i) = Available(p, i)
          /\ QuantityOf(ItemsAfter(p), i) > pre[p].stock[i]

\* C22: an edit in which an insert into the debt ledger failed still
\* commits and is answered with success.
C22_LedgerFailureSwallowed ==
  \A p \in Procs :
    (IsDone(p, "edit") /\ "reason" \in DOMAIN res[p]
       /\ res[p].reason = "ledger_insert") =>
      res[p].code = 200

\* Both processes have committed an edit that replaced the items of order o.
BothCommitted(o) ==
  \A p \in Procs : ItemsReplaced(p) /\ req[p].orderId = o

\* The ledger rows written for the added items of order o.
AddedRowsOf(o) ==
  {i \in DOMAIN user_debt_adjustments :
     /\ user_debt_adjustments[i].order = o
     /\ user_debt_adjustments[i].notes = "items added"}

Place(kind, statusPlace) ==
  CASE kind = "status" -> statusPlace
    [] kind = "restore" -> 1
    [] kind = "ledger_removed" -> 2
    [] kind = "delete" -> 3
    [] kind \in {"decrement", "insert"} -> 4
    [] kind = "ledger_added" -> 5
    [] kind = "total" -> 6

\* The writes follow the listed order, and each new item is decremented and
\* then inserted before the next one is.
InListedOrder(writes, statusPlace) ==
  /\ \A i \in 1..(Len(writes) - 1) :
       Place(writes[i], statusPlace) <= Place(writes[i + 1], statusPlace)
  /\ \A i \in DOMAIN writes :
       writes[i] = "decrement" => i < Len(writes) /\ writes[i + 1] = "insert"
  /\ \A i \in DOMAIN writes :
       writes[i] = "insert" => i > 1 /\ writes[i - 1] = "decrement"

\* A committed edit that was given both items and a status.
EditedItemsAndStatus(p) ==
  ItemsReplaced(p) /\ req[p].status # "absent"

\* C24 as stated: in an edit given items and a status, the status update
\* comes after every other write.
C24_StatusWrittenLast ==
  \A p \in Procs :
    EditedItemsAndStatus(p) => InListedOrder(res[p].writes, 7)

\* C24: in an edit given items and a status, the status update is the first
\* write of the transaction; then stock is restored, the ledger rows for the
\* removed items appended, the current items deleted, each new item's stock
\* decremented and its row inserted, the ledger rows for the added items
\* appended, and total_amount recomputed.
C24_EditWriteOrder ==
  \A p \in Procs :
    EditedItemsAndStatus(p) =>
      /\ InListedOrder(res[p].writes, 0)
      /\ Head(res[p].writes) = "status"
      /\ res[p].writes[Len(res[p].writes)] = "total"

\* C24 witness: a committed edit with items and status that issued every
\* kind of write.
C24_Witness ==
  \E p \in Procs :
    /\ EditedItemsAndStatus(p)
    /\ {res[p].writes[i] : i \in DOMAIN res[p].writes} =
         {"status", "restore", "ledger_removed", "delete", "decrement",
          "insert", "ledger_added", "total"}

\* The units of a product in the given tables: in stock and on stored items.
UnitsOf(tables, productId) ==
  tables.stock[productId] + QuantityOf(tables.order_items, productId)

\* A creation or an edit that completed successfully.
CompletedOrderWrite(p) ==
  \/ IsDone(p, "create") /\ res[p].code = 201
  \/ IsDone(p, "edit") /\ res[p].code = 200

\* C25: a successfully completed creation or edit, run alone, leaves for
\* every product the sum of its stock and of its quantity over all stored
\* order items as it was; so does any sequence of them.
C25_UnitsConserved ==
  \A p \in Procs : CompletedOrderWrite(p) =>
    \A i \in ProductIds : UnitsOf(Tables, i) = UnitsOf(pre[p], i)

\* C25 witness: an edit moved units between stock and items of two products,
\* on top of an order a creation had stored.
C25_Witness ==
  \E p \in Procs :
    /\ IsDone(p, "edit") /\ res[p].code = 200
    /\ \E i, j \in ProductIds :
         /\ stock[i] < pre[p].stock[i]
         /\ stock[j] > pre[p].stock[j]
         /\ UnitsOf(Tables, i) = products[i].stock_quantity

\* The orders of a client in the given tables, and the items stored on them.
OrdersOf(tables, userId) ==
  {o \in DOMAIN tables.orders : tables.orders[o].client_id = userId}

ClientLines(tables, userId) ==
  SelectSeq(tables.order_items, LAMBDA r : r.order_id \in OrdersOf(tables, userId))

\* What the ledger of the given tables says the client owes in a currency,
\* before and after the clamp of the debt read.
OwedIn(tables, userId, currency) ==
  0 - AmountsIn(SelectSeq(tables.user_debt_adjustments,
                          LAMBDA r : r.user_id = userId), currency)

DebtIn(tables, userId, currency) ==
  IF OwedIn(tables, userId, currency) > 0 THEN OwedIn(tables, userId, currency) ELSE 0

\* The ledger and the stored lines of the client agree in both currencies.
LedgerMatchesLines(tables, userId) ==
  \A c \in Currencies : OwedIn(tables, userId, c) = LinesValue(ClientLines(tables, userId), c)

NoManualAdjustment(tables, userId) ==
  \A i \in DOMAIN tables.user_debt_adjustments :
    tables.user_debt_adjustments[i].user_id = userId =>
      tables.user_debt_adjustments[i].notes # "manual"

\* Every order of the client that the request of p added has status pending.
NewOrdersPending(p, userId) ==
  \A o \in OrdersOf(Tables, userId) \ DOMAIN pre[p].orders :
    orders[o].status = "pending"

\* C26: an order creation (whatever its answer) or a successful edit, run
\* alone, keeps for every client without manual adjustments whose new order
\* is pending the agreement of ledger and stored lines: the EUR debt is the
\* value of the smartphone lines stored on the client's orders and the MKD
\* debt the value of the other lines.
C26_DebtMatchesStoredLines ==
  \A p \in Procs :
    (IsDone(p, "create") \/ (IsDone(p, "edit") /\ res[p].code = 200)) =>
      \A u \in UserIds :
        (/\ NoManualAdjustment(Tables, u)
         /\ LedgerMatchesLines(pre[p], u)
         /\ NewOrdersPending(p, u)) =>
          \A c \in Currencies :
            DebtIn(Tables, u, c) = LinesValue(ClientLines(Tables, u), c)

\* C27: no stored order item names a product whose stock_status is disabled
\* (the catalog's stock_status does not change here, so "at the time of the
\* operation" is now): creation and item replacement both reject such a line.
C27_NoItemForDisabledProduct ==
  \A i \in DOMAIN order_items :
    products[order_items[i].product_id].stock_status # "disabled"

\* C28: a deletion answered with success has removed the header and every
\* item of the order and nothing else: the other orders and items, every
\* product's stock and the whole ledger are as before, and so is what every
\* user owes.
C28_DeleteLeavesStockAndLedger ==
  \A p \in Procs : (IsDone(p, "delete") /\ res[p].code = 200) =>
    LET o == req[p].orderId
    IN /\ o \in DOMAIN pre[p].orders
       /\ DOMAIN orders = DOMAIN pre[p].orders \ {o}
       /\ \A other \in DOMAIN orders : orders[other] = pre[p].orders[other]
       /\ ItemsOf(order_items, o) = <<>>
       /\ order_items = SelectSeq(pre[p].order_items, LAMBDA r : r.order_id # o)
       /\ stock = pre[p].stock
       /\ user_debt_adjustments = pre[p].user_debt_adjustments
       /\ \A u \in UserIds, c \in Currencies :
            DebtIn(Tables, u, c) = DebtIn(pre[p], u, c)

\* C28 witness: a pending order of a client with two items has been deleted;
\* the stock its items took is still missing and the client still owes.
C28_Witness ==
  \E p \in Procs :
    /\ IsDone(p, "delete") /\ res[p].code = 200
    /\ LET o == req[p].orderId
           before == ItemsOf(pre[p].order_items, o)
       IN /\ pre[p].orders[o].status = "pending"
          /\ pre[p].orders[o].client_id # NULL
          /\ Len(before) = 2
          /\ \A i \in DOMAIN before :
               stock[before[i].product_id] < products[before[i].product_id].stock_quantity
          /\ \E c \in Currencies : DebtIn(Tables, pre[p].orders[o].client_id, c) > 0

\* C29: in every reachable state every stored order item refers to an order
\* that exists, whatever the interleaving of deletions, edits and creations.
C29_ItemsReferToOrders ==
  \A i \in DOMAIN order_items : order_items[i].order_id \in DOMAIN orders

\* The requests that hold a client of the pool.
CheckedOut == {p \in Procs : tx[p].connected /\ tx[p].released = 0}

InTransaction(p) ==
  pc[p] \in {"edit_restore", "edit_lines", "edit_commit", "edit_aborted"}

\* C30: an edit holds its client while its transaction runs and has released
\* it exactly once when it answers - after COMMIT, after a ROLLBACK, and
\* after a ROLLBACK that failed; a request that is over holds no client.
C30_ClientReleasedOnce ==
  \A p \in Procs :
    /\ InTransaction(p) => p \in CheckedOut
    /\ ~InTransaction(p) => p \notin CheckedOut
    /\ tx[p].connected => tx[p].released <= 1
    /\ (IsDone(p, "edit") /\ res[p].code = 200) =>
         tx[p].connected /\ tx[p].released = 1
    /\ (IsDone(p, "edit") /\ "rollback" \in DOMAIN res[p]) =>
         tx[p].connected /\ tx[p].released = 1

\* C30 witness: while the other process has answered an edit whose ROLLBACK
\* failed and has given its client back, this one has committed an edit and
\* given back its own.
C30_Witness ==
  \E p, q \in Procs :
    /\ IsDone(p, "edit") /\ res[p].code = 200 /\ tx[p].released = 1
    /\ IsDone(q, "edit") /\ res[q].code = 500
    /\ "rollback" \in DOMAIN res[q] /\ res[q].rollback = "failed"
    /\ tx[q].connected /\ tx[q].released = 1

====
